---- MODULE Spec2Model ----
(***************************************************************************)
(* Relationship population engine of packages/core/src/entity/             *)
(* EntityLoader.ts: request normalisation, batched loading and re-linking  *)
(* of fetched children, as a state machine over an in-memory identity map. *)
(* A field name is kept as the sequence of its dot-separated segments, so  *)
(* "books.tags" is <<"books", "tags">> and includes('.') is Len > 1.        *)
(***************************************************************************)
EXTENDS Integers, Sequences, FiniteSets, TLC

VARIABLES
  meta,      \* metadata registry: entity type -> ordered properties
  cfg,       \* [pivot: usesPivotTable(), autoJoin: autoJoinOneToOneOwner]
  mem,       \* identity map: loaded flags, to-one fields, Collections, marks
  call,      \* arguments of the populate call in progress (or the last one)
  ncalls,    \* number of top-level populate calls made so far
  status,    \* "idle" | "running" | "done" | "failed"
  error,     \* the error populate failed with, NoError otherwise
  stack,     \* frames of the (recursive) populate calls in progress
  pending,   \* the requests awaited at the current suspend point
  log,       \* every fetch issued by the current top-level call
  nproc,     \* number of populateMany invocations of the current call
  last,      \* what the latest populateMany invocation saw and did
  hist,      \* facts recorded when the current call started
  walk       \* small-step run of the wildcard / eager metadata walk

vars == <<meta, cfg, mem, call, ncalls, status, error, stack, pending, log, nproc, last, hist, walk>>

\* ------------------------------------------------------------ bounds
MaxCalls == 2
MaxDepth == 4

\* ------------------------------------------------------------ helpers
NULL == "null"

SeqToSet(s) == {s[i] : i \in DOMAIN s}

RECURSIVE Unique(_)
Unique(s) ==
  IF s = <<>> THEN <<>>
  ELSE LET r == Unique(SubSeq(s, 1, Len(s) - 1))
           x == s[Len(s)]
       IN  IF x \in SeqToSet(r) THEN r ELSE Append(r, x)

RECURSIVE Flatten(_)
Flatten(ss) ==
  IF ss = <<>> THEN <<>> ELSE Head(ss) \o Flatten(Tail(ss))

Count(s, x) == Cardinality({i \in DOMAIN s : s[i] = x})

\* ------------------------------------------------------------ metadata
SCALAR == "SCALAR"
MANY_TO_ONE == "MANY_TO_ONE"
ONE_TO_ONE == "ONE_TO_ONE"
ONE_TO_MANY == "ONE_TO_MANY"
MANY_TO_MANY == "MANY_TO_MANY"

Types == {"Author", "Book", "Tag"}

Prop(name, reference, type, owner, mappedBy, eager, lazy) ==
  [name |-> name, reference |-> reference, type |-> type, owner |-> owner,
   mappedBy |-> mappedBy, eager |-> eager, lazy |-> lazy]

Scalar(name, lazy) == Prop(name, SCALAR, "string", FALSE, NULL, FALSE, lazy)

Schema ==
  [Author |-> << Scalar("id", FALSE),
                 Scalar("bio", TRUE),
                 Prop("books", ONE_TO_MANY, "Book", FALSE, "author", FALSE, FALSE),
                 Prop("favourite", ONE_TO_ONE, "Book", TRUE, NULL, FALSE, FALSE) >>,
   Book   |-> << Scalar("id", FALSE),
                 Scalar("title", FALSE),
                 Prop("author", MANY_TO_ONE, "Author", TRUE, NULL, TRUE, FALSE),
                 Prop("tags", MANY_TO_MANY, "Tag", TRUE, NULL, FALSE, FALSE),
                 Prop("fan", ONE_TO_ONE, "Author", FALSE, "favourite", FALSE, FALSE) >>,
   Tag    |-> << Scalar("id", FALSE),
                 Prop("books", MANY_TO_MANY, "Book", FALSE, "tags", FALSE, FALSE) >>]

Properties(entityName) == meta[entityName]

HasProp(entityName, name) ==
  /\ entityName \in DOMAIN meta
  /\ \E i \in DOMAIN meta[entityName] : meta[entityName][i].name = name

PropOf(entityName, name) ==
  meta[entityName][CHOOSE i \in DOMAIN meta[entityName] : meta[entityName][i].name = name]

primaryKey == "id"

\* ------------------------------------------------------------ storage
Authors == <<"a1", "a2">>
Books == <<"b1", "b2", "b3">>
Tags == <<"t1", "t2">>
Entities == SeqToSet(Authors) \cup SeqToSet(Books) \cup SeqToSet(Tags)

Rows(type) ==
  CASE type = "Author" -> Authors
    [] type = "Book" -> Books
    [] type = "Tag" -> Tags
    [] OTHER -> <<>>

TypeOf(e) == CHOOSE t \in Types : e \in SeqToSet(Rows(t))

\* the owning to-one columns
StoreRef(e, f) ==
  CASE f = "author" /\ e = "b1" -> "a1"
    [] f = "author" /\ e = "b2" -> "a1"
    [] f = "author" /\ e = "b3" -> "a2"
    [] f = "favourite" /\ e = "a1" -> "b1"
    [] OTHER -> NULL

\* the owning side of Book.tags (join table rows, or the embedded key array)
StoreTags(b) ==
  CASE b = "b1" -> <<"t1">>
    [] b = "b3" -> <<"t1", "t2">>
    [] OTHER -> <<>>

StoreTitle(b) == IF b = "b2" THEN "y" ELSE "x"

\* the values column k of row e holds (a set: a key array holds several)
StoreVals(e, k) ==
  CASE k = primaryKey -> {e}
    [] k = "title" /\ TypeOf(e) = "Book" -> {StoreTitle(e)}
    [] k = "tags" /\ TypeOf(e) = "Book" -> SeqToSet(StoreTags(e))
    [] k \in {"author", "favourite"} -> {StoreRef(e, k)} \ {NULL}
    [] OTHER -> {}

\* ------------------------------------------------------------ identity map
SchemaProps(e) == Schema[TypeOf(e)]

RefKeys ==
  {k \in Entities \X {"author", "favourite", "fan"} :
     \E i \in DOMAIN SchemaProps(k[1]) :
        /\ SchemaProps(k[1])[i].name = k[2]
        /\ SchemaProps(k[1])[i].reference \in {MANY_TO_ONE, ONE_TO_ONE}}

CollKeys ==
  {k \in Entities \X {"books", "tags"} :
     \E i \in DOMAIN SchemaProps(k[1]) :
        /\ SchemaProps(k[1])[i].name = k[2]
        /\ SchemaProps(k[1])[i].reference \in {ONE_TO_MANY, MANY_TO_MANY}}

SchemaProp(e, f) ==
  SchemaProps(e)[CHOOSE i \in DOMAIN SchemaProps(e) : SchemaProps(e)[i].name = f]

\* entities as the identity map holds them before anything is loaded:
\* references with unset to-one fields and uninitialized, empty Collections
BlankMemory ==
  [loaded   |-> [e \in Entities |-> FALSE],
   ref      |-> [k \in RefKeys |-> NULL],
   coll     |-> [k \in CollKeys |-> [init |-> FALSE, items |-> <<>>]],
   popEnt   |-> {},
   popColl  |-> {}]

isCollection(m, e, f) == <<e, f>> \in CollKeys

\* Utils.isEntity(value, true): an entity or a Reference wrapping one
isEntity(m, e, f) == <<e, f>> \in RefKeys /\ m.ref[<<e, f>>] # NULL

\* e[field] is truthy: a Collection, a set to-one value or a loaded scalar
isTruthy(m, e, f) ==
  \/ isCollection(m, e, f)
  \/ isEntity(m, e, f)
  \/ /\ <<e, f>> \notin RefKeys
     /\ \E i \in DOMAIN SchemaProps(e) : SchemaProps(e)[i].name = f /\ ~SchemaProps(e)[i].lazy
     /\ m.loaded[e]

\* Collection.isInitialized(true): initialized, and so is every item
isInitializedFully(m, k) ==
  m.coll[k].init /\ \A i \in DOMAIN m.coll[k].items : m.loaded[m.coll[k].items[i]]

\* Collection.hydrate(items): the items become the list given, as given, and
\* the Collection is marked initialized
hydrate(m, k, items) ==
  [m EXCEPT !.coll[k] = [init |-> TRUE, items |-> items]]

\* the owner row of the inverse ONE_TO_ONE field f of e, if any
InverseOwner(e, f) ==
  LET p == SchemaProp(e, f)
      c == {o \in SeqToSet(Rows(p.type)) : StoreRef(o, p.mappedBy) = e}
  IN  IF c = {} THEN NULL ELSE CHOOSE o \in c : TRUE

\* em.merge / the hydration em.find performs on one row: the entity becomes
\* initialized, its owning to-one fields reference their targets, a ONE_TO_ONE
\* is wired on both sides, and an embedded key array fills the owning Collection
RefAfter(m, e, k, p) ==
  IF k[1] = e /\ p.owner THEN StoreRef(e, k[2])
  ELSE IF k[1] = e /\ cfg.autoJoin THEN InverseOwner(e, k[2])
  ELSE IF /\ p.reference = ONE_TO_ONE /\ ~p.owner
          /\ p.type = TypeOf(e)
          /\ StoreRef(e, p.mappedBy) = k[1]
       THEN e
  ELSE m.ref[k]

CollAfter(m, e, k, p) ==
  IF k[1] = e /\ p.reference = MANY_TO_MANY /\ p.owner /\ ~cfg.pivot
  THEN [init |-> TRUE, items |-> StoreTags(e)]
  ELSE m.coll[k]

Hydrate(m, e, refresh) ==
  IF m.loaded[e] /\ ~refresh THEN m
  ELSE [m EXCEPT !.loaded[e] = TRUE,
                 !.ref = [k \in RefKeys |-> RefAfter(m, e, k, SchemaProp(k[1], k[2]))],
                 !.coll = [k \in CollKeys |-> CollAfter(m, e, k, SchemaProp(k[1], k[2]))]]

RECURSIVE HydrateAll(_, _, _)
HydrateAll(m, es, refresh) ==
  IF es = <<>> THEN m ELSE HydrateAll(Hydrate(m, Head(es), refresh), Tail(es), refresh)

\* ------------------------------------------------------------ filters
EmptyMap == [k \in {} |-> NULL]
Undefined == [undef |-> TRUE]
Lit(v) == [lit |-> v]
In(ids) == [in |-> ids]
Sub(w) == [sub |-> w]

WhereAt(w, k) == IF k \in DOMAIN w THEN w[k] ELSE Undefined
isPlainObject(v) == "sub" \in DOMAIN v

\* row e satisfies constraint c on column k
Match(e, k, c) ==
  IF "in" \in DOMAIN c THEN StoreVals(e, k) \cap SeqToSet(c.in) # {}
  ELSE IF "lit" \in DOMAIN c THEN c.lit \in StoreVals(e, k)
  ELSE TRUE

MatchAll(e, cond) == \A k \in DOMAIN cond : Match(e, k, cond[k])

\* em.find(type, where): the rows of the type that satisfy the filter, in key order
Find(type, where) == SelectSeq(Rows(type), LAMBDA e : MatchAll(e, where))

\* the child rows one parent has through the join table
PivotRows(prop, parent) ==
  IF prop.owner THEN StoreTags(parent)
  ELSE SelectSeq(Rows(prop.type), LAMBDA b : parent \in SeqToSet(StoreTags(b)))

PivotCond(w) ==
  IF isPlainObject(w) THEN w.sub
  ELSE IF "lit" \in DOMAIN w THEN [k \in {primaryKey} |-> w]
  ELSE EmptyMap

\* driver.loadFromPivotTable(prop, keys, where): parent key -> ordered child rows
loadFromPivotTable(prop, keys, w) ==
  [p \in SeqToSet(keys) |->
     SelectSeq(PivotRows(prop, p), LAMBDA c : MatchAll(c, PivotCond(w)))]

\* ------------------------------------------------------------ request normaliser
Node(field, children, all) == [field |-> field, children |-> children, all |-> all]
Leaf(field) == Node(field, <<>>, FALSE)
Ok(v) == [ok |-> TRUE, val |-> v]
Fail(kind, entityName, field) == [ok |-> FALSE, val |-> [kind |-> kind, entity |-> entityName, field |-> field]]

IsRelation(p) == p.reference # SCALAR
IsEager(p) == p.eager

\* the properties a walk visits: the non-scalar ones, or the eager ones
WalkProps(entityName, mode) ==
  SelectSeq(Properties(entityName),
            LAMBDA p : IF mode = "all" THEN IsRelation(p) ELSE IsEager(p))

\* a walk with no cycle guard
isVisitedNever(visited, entityName) == FALSE

\* visited.includes(entityName), the cycle guard
isVisited(visited, entityName) == entityName \in SeqToSet(visited)

\* lookupAllRelationships / lookupEagerLoadedRelationships below the first call:
\* [ret, visited] with the visited list shared by the whole walk
RECURSIVE lookupNested(_, _, _, _)
RECURSIVE lookupProps(_, _, _, _, _)
RECURSIVE lookupRest(_, _, _, _, _, _)
lookupNested(entityName, prefix, visited, mode) ==
  IF isVisited(visited, entityName) \/ entityName \notin DOMAIN meta
  THEN [ret |-> <<>>, visited |-> visited]
  ELSE lookupProps(WalkProps(entityName, mode), prefix, Append(visited, entityName), mode, <<>>)

\* the forEach over the properties: one property, then the rest
lookupProps(props, prefix, visited, mode, ret) ==
  IF props = <<>> THEN [ret |-> ret, visited |-> visited]
  ELSE lookupRest(props, prefix, mode, ret, Append(prefix, Head(props).name),
                  lookupNested(Head(props).type, Append(prefix, Head(props).name), visited, mode))

\* lines 245-252 / 272-279: splice the nested nodes in, or push a leaf
lookupRest(props, prefix, mode, ret, prefixed, nested) ==
  lookupProps(Tail(props), prefix, nested.visited, mode,
              IF Len(nested.ret) > 0 THEN ret \o nested.ret ELSE Append(ret, Leaf(prefixed)))

lookupAllRelationships(entityName) == lookupNested(entityName, <<>>, <<>>, "all").ret

\* a lookup that leaves the list as the caller gave it
lookupEagerLoadedRelationshipsNone(entityName, populate) == populate

\* the eager nodes are pushed onto the list passed in
lookupEagerLoadedRelationships(entityName, populate) ==
  populate \o lookupNested(entityName, <<>>, <<>>, "eager").ret

\* an expansion that forgets the rest of the path
chainCut(field, sub) ==
  IF sub.ok THEN Ok(Node(<<field>>, <<>>, FALSE)) ELSE sub

\* line 71: ret.children = [the nested chain]
chain(field, sub) ==
  IF sub.ok THEN Ok(Node(<<field>>, <<sub.val>>, FALSE)) ELSE sub

\* expandNestedPopulate(entityName, parts): the chain of child nodes of a dotted
\* path; reading .type of a property that does not exist throws
RECURSIVE expandNestedPopulate(_, _)
expandNestedPopulate(entityName, parts) ==
  IF entityName \notin DOMAIN meta THEN Fail("MetadataError", entityName, <<Head(parts)>>)
  ELSE IF Len(parts) = 1 THEN Ok(Leaf(parts))
  ELSE IF ~HasProp(entityName, Head(parts)) THEN Fail("TypeError", entityName, <<Head(parts)>>)
  ELSE chain(Head(parts), expandNestedPopulate(PropOf(entityName, Head(parts)).type, Tail(parts)))

\* lines 52-55: the node keeps its first segment and gains the chain as a child
attach(p, sub) ==
  IF sub.ok THEN Ok(Node(<<Head(p.field)>>, Append(p.children, sub.val), p.all)) ELSE sub

\* lines 46-56 for one node
expandNode(entityName, p) ==
  IF Len(p.field) = 1 THEN Ok(p)
  ELSE IF ~HasProp(entityName, Head(p.field)) THEN Fail("TypeError", entityName, <<Head(p.field)>>)
  ELSE attach(p, expandNestedPopulate(PropOf(entityName, Head(p.field)).type, Tail(p.field)))

cons(h, t) ==
  IF ~h.ok THEN h ELSE IF ~t.ok THEN t ELSE Ok(<<h.val>> \o t.val)

\* the forEach of lines 46-56; the first node that throws ends it
RECURSIVE expandNodes(_, _)
expandNodes(entityName, nodes) ==
  IF nodes = <<>> THEN Ok(<<>>)
  ELSE cons(expandNode(entityName, Head(nodes)), expandNodes(entityName, Tail(nodes)))

\* a request is true, false or a list of nodes
PTrue == [bool |-> TRUE]
PFalse == [bool |-> FALSE]
PList(nodes) == [nodes |-> nodes]
IsTrue(populate) == "bool" \in DOMAIN populate /\ populate.bool
IsFalse(populate) == "bool" \in DOMAIN populate /\ ~populate.bool
SomeAll(populate) == \E i \in DOMAIN populate.nodes : populate.nodes[i].all

\* a normaliser that adds the eager relationships whatever lookup says
normalizePopulateEager(entityName, populate, lookup) ==
  expandNodes(entityName,
              lookupEagerLoadedRelationships(entityName,
                IF IsTrue(populate) \/ SomeAll(populate)
                THEN lookupAllRelationships(entityName) ELSE populate.nodes))

\* lines 35-59
normalizePopulate(entityName, populate, lookup) ==
  LET base == IF IsTrue(populate) \/ SomeAll(populate)
              THEN lookupAllRelationships(entityName)
              ELSE populate.nodes
      full == IF lookup THEN lookupEagerLoadedRelationships(entityName, base) ELSE base
  IN  expandNodes(entityName, full)

\* em.canPopulate(entityName, field) for a dot-free field
canPopulate(entityName, field) ==
  /\ HasProp(entityName, Head(field))
  /\ LET p == PropOf(entityName, Head(field)) IN p.reference # SCALAR \/ p.lazy

\* ------------------------------------------------------------ batch loader
NoError == [kind |-> "none", entity |-> NULL, field |-> <<>>]
Error(kind, entityName, field) == [kind |-> kind, entity |-> entityName, field |-> field]
None == [op |-> "none"]

Field(populate) == Head(populate.field)

\* a filter that drops the initialized Collections whatever refresh says
filterCollectionsStale(m, entities, field, refresh) ==
  SelectSeq(entities,
            LAMBDA e : isCollection(m, e, field) /\ ~isInitializedFully(m, <<e, field>>))

\* a filter that takes every Collection to need loading
filterCollectionsAll(m, entities, field, refresh) ==
  IF refresh THEN SelectSeq(entities, LAMBDA e : isTruthy(m, e, field))
  ELSE SelectSeq(entities, LAMBDA e : isCollection(m, e, field))

\* lines 212-218
filterCollections(m, entities, field, refresh) ==
  IF refresh THEN SelectSeq(entities, LAMBDA e : isTruthy(m, e, field))
  ELSE SelectSeq(entities,
                 LAMBDA e : isCollection(m, e, field) /\ ~isInitializedFully(m, <<e, field>>))

unwrapAll(m, es, field) == [i \in DOMAIN es |-> m.ref[<<es[i], field>>]]

filterReferences(m, entities, field, refresh) ==
  IF refresh THEN unwrapAll(m, SelectSeq(entities, LAMBDA e : isEntity(m, e, field)), field)
  ELSE unwrapAll(m, SelectSeq(entities, LAMBDA e : /\ isEntity(m, e, field)
                                                   /\ ~m.loaded[m.ref[<<e, field>>]]), field)

getItems(m, es, field) == Flatten([i \in DOMAIN es |-> m.coll[<<es[i], field>>].items])

getChildReferences(m, entities, prop, refresh) ==
  IF prop.reference = ONE_TO_MANY THEN filterCollections(m, entities, prop.name, refresh)
  ELSE IF prop.reference = MANY_TO_MANY /\ prop.owner
  THEN getItems(m, filterCollections(m, entities, prop.name, refresh), prop.name)
  ELSE IF prop.reference = MANY_TO_MANY THEN filterCollections(m, entities, prop.name, refresh)
  ELSE filterReferences(m, entities, prop.name, refresh)

\* lines 134-150: the entities whose keys the fetch is restricted to
FindKeys(m, entities, prop, refresh) ==
  IF prop.reference = ONE_TO_ONE /\ ~prop.owner /\ ~cfg.autoJoin THEN entities
  ELSE getChildReferences(m, entities, prop, refresh)

\* lines 136-146: the column of the child the keys are matched against
FindFk(prop) ==
  IF \/ prop.reference = ONE_TO_MANY
     \/ (prop.reference = MANY_TO_MANY /\ ~prop.owner)
     \/ (prop.reference = ONE_TO_ONE /\ ~prop.owner /\ ~cfg.autoJoin)
  THEN prop.mappedBy
  ELSE primaryKey

\* line 153: { [fk]: { $in: ids }, ...where }
FindWhere(fk, ids, where) ==
  [k \in {fk} \cup DOMAIN where |-> IF k \in DOMAIN where THEN where[k] ELSE In(ids)]

Request(op, type, fk, ids, where, refresh) ==
  [op |-> op, type |-> type, fk |-> fk, ids |-> ids, where |-> where, refresh |-> refresh]

\* a loader that asks for the children of each key on its own
FindRequestsPerKey(type, fk, children, where, refresh) ==
  [i \in DOMAIN Unique(children) |->
     Request("find", type, fk, <<Unique(children)[i]>>,
             FindWhere(fk, <<Unique(children)[i]>>, where), refresh)]

\* lines 152-156: the em.find calls findChildren makes for a non-empty key list
FindRequests(type, fk, children, where, refresh) ==
  << Request("find", type, fk, Unique(children), FindWhere(fk, Unique(children), where), refresh) >>

\* line 183: the loadFromPivotTable call
PivotRequests(prop, filtered, w, refresh) ==
  << Request("pivot", prop.type, prop.name, filtered, w, refresh) >>

\* a flag set on the Collections only
setPopulatedCollections(m, entities, field) ==
  [m EXCEPT
     !.popColl = @ \cup {<<e, field>> : e \in {x \in SeqToSet(entities) : isCollection(m, x, field)}}]

\* lines 89-93: set populate flag
setPopulated(m, entities, field) ==
  [m EXCEPT
     !.popEnt = @ \cup {m.ref[<<e, field>>] : e \in {x \in SeqToSet(entities) : isEntity(m, x, field)}},
     !.popColl = @ \cup {<<e, field>> : e \in {x \in SeqToSet(entities) : isCollection(m, x, field)}}]

\* ------------------------------------------------------------ linker
\* a linker that hands every fetched child to every parent
childrenOfAny(m, children, mappedBy, entity) == children

\* line 121: the children whose mappedBy field is this very parent
childrenOf(m, children, mappedBy, entity) ==
  SelectSeq(children, LAMBDA c : <<c, mappedBy>> \in RefKeys /\ m.ref[<<c, mappedBy>>] = entity)

\* a linker that hydrates a parent only when it has children, and otherwise
\* leaves its Collection empty and not initialized
RECURSIVE initializeOneToManyReset(_, _, _, _, _)
initializeOneToManyReset(m, filtered, children, prop, field) ==
  IF filtered = <<>> THEN m
  ELSE initializeOneToManyReset(
         IF childrenOf(m, children, prop.mappedBy, Head(filtered)) = <<>>
         THEN [m EXCEPT !.coll[<<Head(filtered), field>>] = [init |-> FALSE, items |-> <<>>]]
         ELSE hydrate(m, <<Head(filtered), field>>,
                      childrenOf(m, children, prop.mappedBy, Head(filtered))),
         Tail(filtered), children, prop, field)

\* lines 119-124
RECURSIVE initializeOneToMany(_, _, _, _, _)
initializeOneToMany(m, filtered, children, prop, field) ==
  IF filtered = <<>> THEN m
  ELSE initializeOneToMany(
         hydrate(m, <<Head(filtered), field>>, childrenOf(m, children, prop.mappedBy, Head(filtered))),
         Tail(filtered), children, prop, field)

containing(m, children, mappedBy, entity) ==
  SelectSeq(children, LAMBDA c : /\ <<c, mappedBy>> \in CollKeys
                                 /\ entity \in SeqToSet(m.coll[<<c, mappedBy>>].items))

RECURSIVE initializeManyToMany(_, _, _, _, _)
initializeManyToMany(m, filtered, children, prop, field) ==
  IF filtered = <<>> THEN m
  ELSE initializeManyToMany(
         hydrate(m, <<Head(filtered), field>>, containing(m, children, prop.mappedBy, Head(filtered))),
         Tail(filtered), children, prop, field)

initializeCollections(m, filtered, prop, field, children) ==
  IF prop.reference = ONE_TO_MANY THEN initializeOneToMany(m, filtered, children, prop, field)
  ELSE IF prop.reference = MANY_TO_MANY /\ ~prop.owner /\ ~cfg.pivot
  THEN initializeManyToMany(m, filtered, children, prop, field)
  ELSE m

\* a loader that hydrates each parent with all the children gathered so far
RECURSIVE hydrateFromPivotGathered(_, _, _, _, _, _)
hydrateFromPivotGathered(m, filtered, map, field, refresh, children) ==
  IF filtered = <<>> THEN [mem |-> m, data |-> children]
  ELSE hydrateFromPivotGathered(
         hydrate(HydrateAll(m, map[Head(filtered)], refresh), <<Head(filtered), field>>,
                 children \o map[Head(filtered)]),
         Tail(filtered), map, field, refresh, children \o map[Head(filtered)])

\* lines 186-190: merge each parent's rows and hydrate its Collection with them
RECURSIVE hydrateFromPivot(_, _, _, _, _, _)
hydrateFromPivot(m, filtered, map, field, refresh, children) ==
  IF filtered = <<>> THEN [mem |-> m, data |-> children]
  ELSE hydrateFromPivot(
         hydrate(HydrateAll(m, map[Head(filtered)], refresh), <<Head(filtered), field>>, map[Head(filtered)]),
         Tail(filtered), map, field, refresh, children \o map[Head(filtered)])

\* ------------------------------------------------------------ orchestrator
Frame(entityName, entities, nodes, where, refresh) ==
  [entityName |-> entityName, entities |-> entities, nodes |-> nodes, i |-> 1,
   where |-> where, refresh |-> refresh]

\* a validation that looks at the first node only
FirstInvalidHead(entityName, nodes) ==
  IF nodes # <<>> /\ ~canPopulate(entityName, nodes[1].field) THEN 1 ELSE 0

\* line 24: populate.find(...), as the index of the node found, 0 for none
FirstInvalid(entityName, nodes) ==
  IF \A i \in DOMAIN nodes : canPopulate(entityName, nodes[i].field) THEN 0
  ELSE CHOOSE i \in DOMAIN nodes :
         /\ ~canPopulate(entityName, nodes[i].field)
         /\ \A j \in 1..(i - 1) : canPopulate(entityName, nodes[j].field)

\* lines 26-32: the validation, then the loop over the normalized nodes
validated(entityName, entities, where, refresh, validate, nodes, invalid) ==
  IF validate /\ invalid # 0
  THEN [kind |-> "error", error |-> Error("invalidPropertyName", entityName, nodes[invalid].field)]
  ELSE IF nodes = <<>> THEN [kind |-> "return"]
  ELSE [kind |-> "frame", frame |-> Frame(entityName, entities, nodes, where, refresh)]

normalized(entityName, entities, where, refresh, validate, n) ==
  IF ~n.ok THEN [kind |-> "error", error |-> n.val]
  ELSE validated(entityName, entities, where, refresh, validate, n.val, FirstInvalid(entityName, n.val))

\* lines 19-28: populate up to its loop; "return", "error" or the loop's frame
populateEnter(entityName, entities, populate, where, refresh, validate, lookup) ==
  IF entities = <<>> \/ IsFalse(populate) THEN [kind |-> "return"]
  ELSE normalized(entityName, entities, where, refresh, validate,
                  normalizePopulate(entityName, populate, lookup))

Top == stack[Len(stack)]
Current == Top.nodes[Top.i]

nextWhere(where, name) ==
  IF isPlainObject(WhereAt(where, name)) THEN WhereAt(where, name).sub ELSE EmptyMap

\* lines 95-103: the fetch populateMany awaits, if any
fetchPlan(f, prop, m1, filtered, keys) ==
  IF prop.reference = MANY_TO_MANY /\ cfg.pivot
  THEN [kind |-> "await", mem |-> m1, filtered |-> filtered, op |-> "pivot",
        reqs |-> PivotRequests(prop, filtered, WhereAt(f.where, prop.name), f.refresh)]
  ELSE IF prop.type \notin DOMAIN meta
  THEN [kind |-> "error", mem |-> m1, filtered |-> filtered,
        error |-> Error("MetadataError", prop.type, <<prop.name>>)]
  ELSE IF keys = <<>>
  THEN [kind |-> "return", filtered |-> filtered,
        mem |-> initializeCollections(m1, filtered, prop, prop.name, <<>>)]
  ELSE [kind |-> "await", mem |-> m1, filtered |-> filtered, op |-> "find",
        reqs |-> FindRequests(prop.type, FindFk(prop), keys, nextWhere(f.where, prop.name), f.refresh)]

\* lines 84-95: the lazy scalar, the populate flags, the parents to load
loadBatch(m, f, prop, m1) ==
  IF prop.reference = SCALAR /\ prop.lazy
  THEN [kind |-> "return", mem |-> m, filtered |-> <<>>]
  ELSE fetchPlan(f, prop, m1, filterCollections(m1, f.entities, prop.name, f.refresh),
                 FindKeys(m1, f.entities, prop, f.refresh))

\* lines 80-103: populateMany up to its suspend point
populateMany(m, f) ==
  IF ~HasProp(f.entityName, Field(f.nodes[f.i]))
  THEN [kind |-> "error", mem |-> m, filtered |-> <<>>,
        error |-> Error("TypeError", f.entityName, f.nodes[f.i].field)]
  ELSE loadBatch(m, f, PropOf(f.entityName, Field(f.nodes[f.i])),
                 setPopulated(m, f.entities, Field(f.nodes[f.i])))

\* lines 165-177: the entities the children of the node are populated on
childEntities(m, entities, field) ==
  Unique(Flatten([i \in DOMAIN entities |->
     IF isEntity(m, entities[i], field) THEN <<m.ref[<<entities[i], field>>]>>
     ELSE IF isCollection(m, entities[i], field) THEN m.coll[<<entities[i], field>>].items
     ELSE <<>>]))

Advance(stk) == [stk EXCEPT ![Len(stk)].i = @ + 1]

\* a field populated without waiting for the nested call: the loop moves on at once
descendEarly(stk, enter) ==
  IF enter.kind = "return"
  THEN [status |-> "running", error |-> NoError, stack |-> Advance(stk)]
  ELSE IF enter.kind = "error"
  THEN [status |-> "failed", error |-> enter.error, stack |-> <<>>]
  ELSE [status |-> "running", error |-> NoError, stack |-> Append(Advance(stk), enter.frame)]

\* line 179 returns, throws, or runs the loop of the nested call
descend(stk, enter) ==
  IF enter.kind = "return"
  THEN [status |-> "running", error |-> NoError, stack |-> Advance(stk)]
  ELSE IF enter.kind = "error"
  THEN [status |-> "failed", error |-> enter.error, stack |-> <<>>]
  ELSE [status |-> "running", error |-> NoError, stack |-> Append(stk, enter.frame)]

recurse(m, stk, f, node, prop) ==
  descend(stk, populateEnter(prop.type, childEntities(m, f.entities, Field(node)),
                             PList(node.children), nextWhere(f.where, prop.name),
                             f.refresh, FALSE, FALSE))

\* lines 160-179: populateField once populateMany has returned
populateField(m, stk) ==
  IF stk[Len(stk)].nodes[stk[Len(stk)].i].children = <<>>
  THEN [status |-> "running", error |-> NoError, stack |-> Advance(stk)]
  ELSE recurse(m, stk, stk[Len(stk)], stk[Len(stk)].nodes[stk[Len(stk)].i],
               PropOf(stk[Len(stk)].entityName, Field(stk[Len(stk)].nodes[stk[Len(stk)].i])))

\* every requested relationship of every entity is initialized, at every depth
RECURSIVE AllInitialized(_, _, _, _)
AllInitialized(m, entityName, entities, nodes) ==
  \A i \in DOMAIN nodes :
    \/ ~HasProp(entityName, Field(nodes[i]))
    \/ PropOf(entityName, Field(nodes[i])).reference = SCALAR
    \/ /\ \A j \in DOMAIN entities :
            IF isCollection(m, entities[j], Field(nodes[i]))
            THEN isInitializedFully(m, <<entities[j], Field(nodes[i])>>)
            ELSE \/ m.ref[<<entities[j], Field(nodes[i])>>] = NULL
                 \/ m.loaded[m.ref[<<entities[j], Field(nodes[i])>>]]
       /\ AllInitialized(m, PropOf(entityName, Field(nodes[i])).type,
                         childEntities(m, entities, Field(nodes[i])), nodes[i].children)

\* ------------------------------------------------------------ callers' inputs
N1(a) == Leaf(<<a>>)
N2(a, b) == Leaf(<<a, b>>)
N3(a, b, c) == Leaf(<<a, b, c>>)
Wildcard == Node(<<"*">>, <<>>, TRUE)

Where1(field, key, v) == [f \in {field} |-> Sub([k \in {key} |-> Lit(v)])]

Args(entityName, entities, populate, where, refresh, validate, lookup) ==
  [entityName |-> entityName, entities |-> entities, populate |-> populate, where |-> where,
   refresh |-> refresh, validate |-> validate, lookup |-> lookup]

\* Author declares nothing eager, so lookup changes nothing for it and stays at its
\* default; validate is varied where a field of the request is not populatable
AuthorInputs ==
  {Args("Author", es, p, EmptyMap, r, TRUE, TRUE) :
     es \in {<<>>, <<"a1">>, <<"a1", "a2">>},
     p \in {PFalse, PTrue, PList(<<>>), PList(<<N1("books")>>), PList(<<N2("books", "tags")>>),
            PList(<<N3("books", "tags", "books")>>), PList(<<N1("favourite")>>),
            PList(<<N1("bio")>>)},
     r \in BOOLEAN}

InvalidInputs ==
  {Args("Author", <<"a1", "a2">>, p, EmptyMap, FALSE, v, TRUE) :
     p \in {PList(<<N1("books"), N1("nope")>>), PList(<<N1("nope"), N1("books")>>),
            PList(<<N2("books", "nope")>>), PList(<<N2("nope", "books")>>)},
     v \in BOOLEAN}
  \cup {Args("Book", <<"b1", "b3">>, PList(<<N1("title")>>), EmptyMap, FALSE, v, FALSE) : v \in BOOLEAN}

WhereInputs ==
  {Args("Author", <<"a1", "a2">>, PList(<<N1("books")>>), w, r, TRUE, TRUE) :
     w \in {Where1("books", "title", "x"), Where1("books", "author", "a2")}, r \in BOOLEAN}
  \cup {Args("Book", <<"b1", "b3">>, PList(<<N1("tags")>>), Where1("tags", "id", "t2"), FALSE, TRUE, FALSE)}

BookInputs ==
  {Args("Book", es, p, EmptyMap, r, TRUE, l) :
     es \in {<<"b2">>, <<"b1", "b3">>},
     p \in {PList(<<>>), PList(<<N1("author")>>), PList(<<N1("tags")>>), PList(<<N1("fan")>>),
            PList(<<N2("tags", "books")>>), PList(<<Wildcard>>)},
     r \in BOOLEAN, l \in BOOLEAN}

TagInputs ==
  {Args("Tag", <<"t1", "t2">>, p, EmptyMap, r, TRUE, TRUE) :
     p \in {PList(<<N1("books")>>), PList(<<N2("books", "author")>>)}, r \in BOOLEAN}

Inputs == AuthorInputs \cup InvalidInputs \cup WhereInputs \cup BookInputs \cup TagInputs

NoCall ==
  [entityName |-> NULL, entities |-> <<>>, populate |-> PFalse, where |-> EmptyMap,
   refresh |-> FALSE, validate |-> FALSE, lookup |-> FALSE]

NoLast ==
  [id |-> 0, entityName |-> NULL, field |-> NULL, reference |-> NULL, entities |-> <<>>,
   refresh |-> FALSE, depth |-> 0, index |-> 0, path |-> <<>>, truthy |-> FALSE, filtered |-> <<>>,
   items |-> FALSE, issued |-> 0, linked |-> FALSE, data |-> <<>>, thrown |-> NULL]
NoHist == [same |-> FALSE, allInit |-> FALSE, mem0 |-> BlankMemory]
WalkOff == [status |-> "off"]

\* ------------------------------------------------------------ the state machine
Init ==
  /\ meta = Schema
  /\ cfg \in [pivot : BOOLEAN, autoJoin : BOOLEAN]
  /\ \E root \in Types : mem = HydrateAll(BlankMemory, Rows(root), FALSE)
  /\ call = NoCall
  /\ ncalls = 0
  /\ status = "idle"
  /\ error = NoError
  /\ stack = <<>>
  /\ pending = None
  /\ log = <<>>
  /\ nproc = 0
  /\ last = NoLast
  /\ hist = NoHist
  /\ walk = WalkOff

InitializedAtStart(c, n) ==
  ~IsFalse(c.populate) /\ n.ok /\ AllInitialized(mem, c.entityName, c.entities, n.val)

Entered(enter) ==
  /\ status' = IF enter.kind = "return" THEN "done"
               ELSE IF enter.kind = "error" THEN "failed" ELSE "running"
  /\ error' = IF enter.kind = "error" THEN enter.error ELSE NoError
  /\ stack' = IF enter.kind = "frame" THEN <<enter.frame>> ELSE <<>>

\* a caller invokes populate(entityName, entities, populate, where, {}, refresh, validate, lookup)
Call ==
  /\ walk = WalkOff
  /\ status # "running"
  /\ ncalls < MaxCalls
  /\ \E c \in Inputs :
       /\ call' = c
       /\ Entered(populateEnter(c.entityName, c.entities, c.populate, c.where,
                                c.refresh, c.validate, c.lookup))
       /\ hist' = [same |-> status = "done" /\ call = c,
                   allInit |-> InitializedAtStart(c, normalizePopulate(c.entityName, c.populate, c.lookup)),
                   mem0 |-> mem]
  /\ ncalls' = ncalls + 1
  /\ pending' = None
  /\ log' = <<>>
  /\ nproc' = 0
  /\ last' = NoLast
  /\ UNCHANGED <<meta, cfg, mem, walk>>

\* the requests issued, each with the populateMany invocation that issued it, the
\* place of its node in the loops and the field of the node
Tagged(reqs, id) ==
  [i \in DOMAIN reqs |->
     [node |-> id, req |-> reqs[i], path |-> [d \in DOMAIN stack |-> stack[d].i],
      field |-> Field(Current)]]

Continue(after) ==
  /\ status' = after.status
  /\ error' = after.error
  /\ stack' = after.stack

Started(r) ==
  /\ mem' = r.mem
  /\ nproc' = nproc + 1
  /\ last' = [id |-> nproc + 1, entityName |-> Top.entityName, field |-> Field(Current),
              reference |-> IF HasProp(Top.entityName, Field(Current))
                            THEN PropOf(Top.entityName, Field(Current)).reference ELSE NULL,
              entities |-> Top.entities, refresh |-> Top.refresh,
              depth |-> Len(stack), index |-> Top.i,
              path |-> [d \in DOMAIN stack |-> stack[d].i],
              truthy |-> \E e \in SeqToSet(Top.entities) : isTruthy(mem, e, Field(Current)),
              items |-> \E e \in SeqToSet(Top.entities) :
                           /\ isCollection(mem, e, Field(Current))
                           /\ mem.coll[<<e, Field(Current)>>].items # <<>>,
              filtered |-> r.filtered,
              issued |-> IF r.kind = "await" THEN Len(r.reqs) ELSE 0,
              linked |-> FALSE, data |-> <<>>, thrown |-> NULL]
  /\ IF r.kind = "error"
     THEN /\ status' = "failed" /\ error' = r.error /\ stack' = <<>>
          /\ pending' = None /\ log' = log
     ELSE IF r.kind = "return"
     THEN /\ Continue(populateField(r.mem, stack))
          /\ pending' = None /\ log' = log
     ELSE /\ pending' = [op |-> r.op, reqs |-> r.reqs, filtered |-> r.filtered]
          /\ log' = log \o Tagged(r.reqs, nproc + 1)
          /\ UNCHANGED <<status, error, stack>>

\* populateField starts the node the loop is at: populateMany up to its await,
\* or to its end when it fetches nothing
StartNode ==
  /\ status = "running"
  /\ pending = None
  /\ stack # <<>>
  /\ Top.i <= Len(Top.nodes)
  /\ Started(populateMany(mem, Top))
  /\ UNCHANGED <<meta, cfg, call, ncalls, hist, walk>>

found(m, f, p, prop, data) ==
  [mem |-> initializeCollections(HydrateAll(m, data, f.refresh), p.filtered, prop, prop.name, data),
   data |-> data]

\* what the awaited requests deliver and what populateMany does with it
Delivered(m, f, p, prop) ==
  IF p.op = "pivot"
  THEN hydrateFromPivot(m, p.filtered, loadFromPivotTable(prop, p.reqs[1].ids, p.reqs[1].where),
                        prop.name, f.refresh, <<>>)
  ELSE found(m, f, p, prop, Flatten([i \in DOMAIN p.reqs |-> Find(p.reqs[i].type, p.reqs[i].where)]))

Linked(d) ==
  /\ mem' = d.mem
  /\ last' = [last EXCEPT !.linked = TRUE, !.data = d.data]
  /\ Continue(populateField(d.mem, stack))

\* the awaited fetch resolves: link the children, then recurse or move on
FetchReturn ==
  /\ status = "running"
  /\ pending # None
  /\ Linked(Delivered(mem, Top, pending, PropOf(Top.entityName, Field(Current))))
  /\ pending' = None
  /\ UNCHANGED <<meta, cfg, call, ncalls, log, nproc, hist, walk>>

\* what em.find or loadFromPivotTable may reject with
FetchErrors == {"DriverError", "TimeoutError"}

\* a loader that catches the rejection and goes on with what it has
FetchFailSwallowed ==
  /\ status = "running"
  /\ pending # None
  /\ \E kind \in FetchErrors : last' = [last EXCEPT !.thrown = kind]
  /\ Continue(populateField(mem, stack))
  /\ pending' = None
  /\ UNCHANGED <<meta, cfg, mem, call, ncalls, log, nproc, hist, walk>>

\* the awaited fetch rejects: the error leaves populate through every frame
FetchFail ==
  /\ status = "running"
  /\ pending # None
  /\ \E kind \in FetchErrors :
       /\ error' = Error(kind, Top.entityName, Current.field)
       /\ last' = [last EXCEPT !.thrown = kind]
  /\ status' = "failed"
  /\ stack' = <<>>
  /\ pending' = None
  /\ UNCHANGED <<meta, cfg, mem, call, ncalls, log, nproc, hist, walk>>

\* the loop of one populate call is over: it returns to populateField, or to the caller
Return ==
  /\ status = "running"
  /\ pending = None
  /\ stack # <<>>
  /\ Top.i > Len(Top.nodes)
  /\ IF Len(stack) = 1
     THEN status' = "done" /\ stack' = <<>>
     ELSE status' = status /\ stack' = Advance(SubSeq(stack, 1, Len(stack) - 1))
  /\ UNCHANGED <<meta, cfg, mem, call, ncalls, error, pending, log, nproc, last, hist, walk>>

Next == Call \/ StartNode \/ FetchReturn \/ FetchFail \/ Return

Spec == Init /\ [][Next]_vars

\* ------------------------------------------------------------ the metadata walk, step by step
\* lookupAllRelationships / lookupEagerLoadedRelationships as the call stack runs
\* them: one frame per call, the properties its forEach has still to visit,
\* the nodes it has collected, and the one visited list every call shares
WalkFrame(entityName, prefix, props) ==
  [entityName |-> entityName, prefix |-> prefix, props |-> props, ret |-> <<>>]

WalkTop == walk.stack[Len(walk.stack)]

WalkStart(entityName, mode) ==
  [status |-> "walking", mode |-> mode, start |-> entityName,
   stack |-> <<WalkFrame(entityName, <<>>, WalkProps(entityName, mode))>>,
   visited |-> <<entityName>>, result |-> <<>>, steps |-> 0]

\* the metadata graphs walked: every type may declare a relationship x (eager)
\* and a relationship y (not eager), each to any type, itself included
GraphProps(x, y) ==
  << Scalar("id", FALSE) >>
  \o (IF x = NULL THEN <<>> ELSE << Prop("x", MANY_TO_ONE, x, TRUE, NULL, TRUE, FALSE) >>)
  \o (IF y = NULL THEN <<>> ELSE << Prop("y", MANY_TO_ONE, y, TRUE, NULL, FALSE, FALSE) >>)

Targets == Types \cup {NULL}

Graphs ==
  {[t \in Types |-> GraphProps(g[<<t, "x">>], g[<<t, "y">>])] : g \in [Types \X {"x", "y"} -> Targets]}

WalkInit ==
  /\ meta \in Graphs
  /\ \E mode \in {"all", "eager"} : walk = WalkStart("Author", mode)
  /\ cfg = [pivot |-> FALSE, autoJoin |-> FALSE]
  /\ mem = BlankMemory
  /\ call = NoCall
  /\ ncalls = 0
  /\ status = "idle"
  /\ error = NoError
  /\ stack = <<>>
  /\ pending = None
  /\ log = <<>>
  /\ nproc = 0
  /\ last = NoLast
  /\ hist = NoHist

WalkUnchanged == UNCHANGED <<meta, cfg, mem, call, ncalls, status, error, stack, pending, log, nproc, last, hist>>

\* the nested call returns [] at once (lines 231-233 / 259-261): a leaf is pushed
WalkSkip ==
  /\ walk.status = "walking"
  /\ WalkTop.props # <<>>
  /\ isVisited(walk.visited, Head(WalkTop.props).type)
  /\ walk' = [walk EXCEPT
                !.stack[Len(walk.stack)].ret =
                    Append(@, Leaf(Append(WalkTop.prefix, Head(WalkTop.props).name))),
                !.stack[Len(walk.stack)].props = Tail(@),
                !.steps = @ + 1]
  /\ WalkUnchanged

\* the nested call goes on: the type is pushed on visited and its properties walked
WalkEnter ==
  /\ walk.status = "walking"
  /\ WalkTop.props # <<>>
  /\ ~isVisited(walk.visited, Head(WalkTop.props).type)
  /\ Len(walk.stack) < MaxDepth
  /\ walk' = [walk EXCEPT
                !.stack = Append(@, WalkFrame(Head(WalkTop.props).type,
                                              Append(WalkTop.prefix, Head(WalkTop.props).name),
                                              WalkProps(Head(WalkTop.props).type, walk.mode))),
                !.visited = Append(@, Head(WalkTop.props).type),
                !.steps = @ + 1]
  /\ WalkUnchanged

\* what the caller's forEach does with the nodes a nested call returned
Spliced(parent, nested) ==
  [parent EXCEPT
     !.ret = IF Len(nested) > 0 THEN @ \o nested
             ELSE Append(@, Leaf(Append(parent.prefix, Head(parent.props).name))),
     !.props = Tail(@)]

\* a call has visited all its properties and returns its nodes
WalkReturn ==
  /\ walk.status = "walking"
  /\ WalkTop.props = <<>>
  /\ IF Len(walk.stack) = 1
     THEN walk' = [walk EXCEPT !.status = "done", !.result = WalkTop.ret, !.stack = <<>>,
                               !.steps = @ + 1]
     ELSE walk' = [walk EXCEPT
                     !.stack = Append(SubSeq(@, 1, Len(@) - 2),
                                      Spliced(walk.stack[Len(walk.stack) - 1], WalkTop.ret)),
                     !.steps = @ + 1]
  /\ WalkUnchanged

WalkNext == WalkSkip \/ WalkEnter \/ WalkReturn

SpecWalk == WalkInit /\ [][WalkNext]_vars


\* ------------------------------------------------------------ properties
FetchesOf(k) == Cardinality({i \in DOMAIN log : log[i].node = k})

\* C1 (batching): one call of populate issues at most one fetch, em.find or
\* loadFromPivotTable, for each populate node it processes, however many parents
\* the node is processed for; a fetch carries the keys of all of them
C1_Batching ==
  /\ \A k \in 1..nproc : FetchesOf(k) <= 1
  /\ \A i \in DOMAIN log : log[i].node \in 1..nproc
  /\ Len(log) <= nproc

\* two nodes processed for two parents each, one fetch per node, the first fetch
\* carrying both parents' keys
C1_Witness ==
  /\ status = "done"
  /\ Len(call.entities) = 2
  /\ nproc = 2
  /\ Len(log) = 2
  /\ Len(log[1].req.ids) = 2

\* C2 (idempotence), as the specification states it: when populate is called
\* again with the request it has just completed, refresh off, and every
\* requested relationship of every entity is initialized, the second call issues
\* no fetch
C2_Idempotent ==
  (hist.same /\ hist.allInit /\ ~call.refresh) => log = <<>>

Mapped == PropOf(last.entityName, last.field).mappedBy

Items(e) == mem.coll[<<e, last.field>>].items

\* C3 (ONE_TO_MANY linkage): once the children of a ONE_TO_MANY node are linked,
\* the Collection of every parent that needed loading is initialized and holds
\* exactly the fetched children whose mappedBy field is that parent: each item
\* was fetched and points back at the parent, and each fetched child pointing at
\* the parent is an item
C3_OneToManyLinkage ==
  (last.linked /\ last.reference = ONE_TO_MANY) =>
    \A e \in SeqToSet(last.filtered) :
      /\ mem.coll[<<e, last.field>>].init
      /\ \A i \in DOMAIN Items(e) :
           Items(e)[i] \in SeqToSet(last.data) /\ mem.ref[<<Items(e)[i], Mapped>>] = e
      /\ \A c \in SeqToSet(last.data) :
           mem.ref[<<c, Mapped>>] = e => c \in SeqToSet(Items(e))

\* two parents loaded in one batch, each with children of its own among the
\* children fetched
C3_Witness ==
  /\ last.linked
  /\ last.reference = ONE_TO_MANY
  /\ Len(last.filtered) = 2
  /\ Len(last.data) = 3
  /\ \A i \in DOMAIN last.filtered : Items(last.filtered[i]) # <<>>

Normalized == normalizePopulate(call.entityName, call.populate, call.lookup)

Attempted == ncalls > 0 /\ call.entities # <<>> /\ ~IsFalse(call.populate)

InvalidAt(n, i) ==
  /\ status = "failed"
  /\ error = Error("invalidPropertyName", call.entityName, n.val[i].field)
  /\ log = <<>>
  /\ nproc = 0
  /\ mem = hist.mem0

Rejected(n) ==
  (n.ok /\ \E i \in DOMAIN n.val : ~canPopulate(call.entityName, n.val[i].field)) =>
    \E i \in DOMAIN n.val :
      /\ ~canPopulate(call.entityName, n.val[i].field)
      /\ InvalidAt(n, i)

\* C4 (validation): with validate on, a call whose normalized request holds a
\* node that cannot be populated fails with the invalid-property-name error for
\* the entity type and the field of such a node, with no fetch issued, no node
\* processed and the entities as they were before the call
C4_ValidationFirst ==
  (Attempted /\ call.validate) => Rejected(Normalized)

\* the node that cannot be populated comes second, after one that can
C4_Witness ==
  /\ Attempted
  /\ call.validate
  /\ call.populate = PList(<<N1("books"), N1("nope")>>)
  /\ status = "failed"
  /\ error = Error("invalidPropertyName", "Author", <<"nope">>)
  /\ log = <<>>

\* C5 (unknown field without validation), as the specification states it: a
\* node whose field the entity type does not declare is skipped: no fetch for
\* it, no error from it
C5_UnknownSkipped ==
  (last.id > 0 /\ ~HasProp(last.entityName, last.field)) =>
    (status # "failed" /\ last.issued = 0)

NothingDone ==
  /\ status = "done"
  /\ log = <<>>
  /\ nproc = 0
  /\ mem = hist.mem0

DeclaresEager(entityName) ==
  \E i \in DOMAIN Properties(entityName) : Properties(entityName)[i].eager

\* C6 (no-op), as the specification states it: a call with no entities, with the
\* request false or with the empty list issues no fetch and changes no entity
C6_NoOp ==
  (ncalls > 0 /\ (call.entities = <<>> \/ IsFalse(call.populate) \/ call.populate = PList(<<>>)))
    => (log = <<>> /\ mem = hist.mem0)

\* C6, amended: a call with no entities or with the request false does nothing;
\* a call with the empty list does nothing when lookup is off or the entity type
\* declares no eager property
C6_NoOpAmended ==
  (/\ ncalls > 0
   /\ \/ call.entities = <<>>
      \/ IsFalse(call.populate)
      \/ (call.populate = PList(<<>>) /\ (~call.lookup \/ ~DeclaresEager(call.entityName))))
    => NothingDone

\* the empty list for entities of a type with an eager relationship, lookup off,
\* after a call that loaded something
C6_Witness ==
  /\ ncalls = 2
  /\ call.entityName = "Book"
  /\ call.entities # <<>>
  /\ call.populate = PList(<<>>)
  /\ ~call.lookup
  /\ hist.mem0 # BlankMemory
  /\ NothingDone

Refreshing == last.id > 0 /\ last.refresh /\ last.truthy /\ last.reference \notin {NULL, SCALAR}

EmbeddedKeys ==
  /\ last.reference = MANY_TO_MANY
  /\ PropOf(last.entityName, last.field).owner
  /\ ~cfg.pivot

\* C7 (refresh), as the specification states it: with refresh on, a node over a
\* relationship that some parent has set is fetched
C7_RefreshFetches ==
  Refreshing => last.issued >= 1

\* C7, amended: with refresh on, a node over a relationship that some parent has
\* set is fetched with one request, initialized or not; except that on the owning
\* side of a MANY_TO_MANY kept without a join table it is fetched exactly when
\* some parent's Collection holds an item
C7_RefreshAmended ==
  Refreshing =>
    IF EmbeddedKeys THEN (last.issued = 1 <=> last.items) /\ last.issued <= 1
    ELSE last.issued = 1

\* a refresh of Collections the same call has already made, every one of them
\* initialized
C7_Witness ==
  /\ Refreshing
  /\ last.reference = ONE_TO_MANY
  /\ hist.same
  /\ hist.allInit
  /\ last.issued = 1
  /\ last.filtered = call.entities
  /\ Len(last.filtered) = 2

NoDup(s) == \A i, j \in DOMAIN s : s[i] = s[j] => i = j

RelationCount(t) == Len(WalkProps(t, walk.mode))

RECURSIVE SumOver(_)
SumOver(s) == IF s = <<>> THEN 0 ELSE RelationCount(Head(s)) + SumOver(Tail(s))

\* C8 (cycle guard): the walk of a wildcard or eager lookup over any metadata
\* graph, self and mutual references included, expands no entity type twice, never
\* nests deeper than there are types, takes a bounded number of steps, is never
\* stuck before it returns, and returns a finite list: the one the recursive
\* definition gives, with at most one node for each property of the types walked
C8_CycleGuard ==
  walk.status # "off" =>
    /\ NoDup(walk.visited)
    /\ Len(walk.stack) <= Cardinality(Types)
    /\ walk.steps <= SumOver(walk.visited) + Len(walk.visited)
    /\ walk.status = "walking" => ENABLED WalkNext
    /\ walk.status = "done" =>
         /\ walk.result = lookupNested(walk.start, <<>>, <<>>, walk.mode).ret
         /\ Len(walk.result) <= SumOver(walk.visited)

\* a finished wildcard walk from a type that references itself and is in a
\* cycle with another type
C8_Witness ==
  /\ walk.status = "done"
  /\ walk.mode = "all"
  /\ \E i \in DOMAIN meta["Author"] : meta["Author"][i].type = "Author"
  /\ \E i \in DOMAIN meta["Author"] : meta["Author"][i].type = "Book"
  /\ \E i \in DOMAIN meta["Book"] : meta["Book"][i].type = "Author"
  /\ Len(walk.visited) = 2
  /\ Len(walk.result) = 2

RECURSIVE NoDots(_)
NoDots(node) ==
  /\ Len(node.field) = 1
  /\ \A i \in DOMAIN node.children : NoDots(node.children[i])

RECURSIVE Chain(_)
Chain(parts) ==
  IF Len(parts) = 1 THEN Leaf(parts) ELSE Node(<<Head(parts)>>, <<Chain(Tail(parts))>>, FALSE)

Requested == call.populate.nodes

\* C9 (dotted paths): in the node list a call works on, no node at any depth has
\* a dotted field; and where the request is a list, every node of it with a
\* dotted field s1.s2...sk has become, in its place, the one node s1 whose
\* children are the single chain s2 -> ... -> sk, the other nodes being kept
C9_DottedPaths ==
  /\ \A d \in DOMAIN stack : \A i \in DOMAIN stack[d].nodes : NoDots(stack[d].nodes[i])
  /\ (stack # <<>> /\ ~IsTrue(call.populate) /\ ~SomeAll(call.populate)) =>
       /\ Len(stack[1].nodes) >= Len(Requested)
       /\ \A i \in DOMAIN Requested :
            IF Len(Requested[i].field) >= 2
            THEN stack[1].nodes[i] = Chain(Requested[i].field)
            ELSE stack[1].nodes[i] = Requested[i]

\* a path of three segments at work as a chain
C9_Witness ==
  /\ stack # <<>>
  /\ call.populate = PList(<<N3("books", "tags", "books")>>)
  /\ stack[1].nodes = <<Node(<<"books">>, <<Node(<<"tags">>, <<Leaf(<<"books">>)>>, FALSE)>>, FALSE)>>
  /\ Len(stack) = 3

LastProp == PropOf(last.entityName, last.field)

Shared(e1, e2) == SeqToSet(PivotRows(LastProp, e1)) \cap SeqToSet(PivotRows(LastProp, e2))

PivotLinked == last.linked /\ last.reference = MANY_TO_MANY /\ cfg.pivot /\ call.where = EmptyMap

\* C10 (join table): once a MANY_TO_MANY node is linked through the join table,
\* no filter given, a child two parents of the batch share is in the Collection
\* of each exactly once, no Collection of the batch holds an entity twice, and
\* all of them are initialized
C10_PivotShared ==
  PivotLinked =>
    /\ \A e \in SeqToSet(last.filtered) : mem.coll[<<e, last.field>>].init /\ NoDup(Items(e))
    /\ \A e1, e2 \in SeqToSet(last.filtered) :
         e1 # e2 => \A c \in Shared(e1, e2) : Count(Items(e1), c) = 1 /\ Count(Items(e2), c) = 1

\* books b1 and b3 loaded in one batch, both tagged t1
C10_Witness ==
  /\ PivotLinked
  /\ last.filtered = <<"b1", "b3">>
  /\ Shared("b1", "b3") = {"t1"}
  /\ Count(Items("b1"), "t1") = 1
  /\ Count(Items("b3"), "t1") = 1

\* the node that follows the node at path p in the order of the loops: its first
\* child, or the next node of the loop at some depth of p
Follows(p, q) ==
  \/ q = Append(p, 1)
  \/ \E k \in DOMAIN p : q = Append(SubSeq(p, 1, k - 1), p[k] + 1)

Settled == pending = None /\ (last.issued > 0 => last.linked)

\* C11 (sequential nodes): within one call a node is started only when no fetch
\* is awaited and the node started before it has had its children linked; the
\* first node started is the first of the list, and each later one is the first
\* child of the node before it or the next node of a loop that node is in, its
\* deeper loops having returned
C11_Sequential ==
  [][nproc' = nproc + 1 =>
       /\ Settled
       /\ IF nproc = 0 THEN last'.path = <<1>> ELSE Follows(last.path, last'.path)
       /\ Len(stack) = Len(last'.path)]_vars

\* the third node of a list is started after the first two and their children
C11_Witness ==
  /\ last.path = <<3>>
  /\ nproc = 5
  /\ Len(log) >= 3
  /\ pending # None

Thrown == last.thrown # NULL

\* C12 (fetch failure): once the fetch of a node has rejected, the call has
\* failed with the error the fetch rejected with, for the entity type and field
\* of that node; no loop is left to run and nothing is awaited, so the node is
\* the last one started and its fetch the last one issued; and the step on which
\* the fetch rejects changes nothing in the entities, so what the nodes before
\* it hydrated stays hydrated
C12_FetchFailure ==
  /\ [](Thrown =>
          /\ status = "failed"
          /\ error = Error(last.thrown, last.entityName, <<last.field>>)
          /\ stack = <<>>
          /\ pending = None
          /\ nproc = last.id
          /\ log # <<>>
          /\ log[Len(log)].node = last.id)
  /\ [][(last'.thrown # NULL /\ ~Thrown) => (mem' = mem /\ log' = log)]_vars

\* the fetch of the second node rejects after the first node's Collections were
\* hydrated by this call: they are still initialized
C12_Witness ==
  /\ Thrown
  /\ last.field = "tags"
  /\ last.id = 2
  /\ call.entities = <<"a1", "a2">>
  /\ ~hist.mem0.coll[<<"a1", "books">>].init
  /\ mem.coll[<<"a1", "books">>].init
  /\ mem.coll[<<"a2", "books">>].init

LastRequest == log[Len(log)].req

Extra == nextWhere(call.where, last.field)

\* C13 (fetch filter of a ONE_TO_MANY node), as the specification states it: the
\* filter of the fetch holds the mappedBy key restricted to the distinct
\* identifiers of the parents that need loading, and with it every constraint
\* of the caller's filter for the field
C13_KeysRestricted ==
  (last.reference = ONE_TO_MANY /\ last.issued = 1 /\ last.depth = 1) =>
    /\ LastRequest.fk = Mapped
    /\ LastRequest.where[Mapped] = In(Unique(last.filtered))
    /\ \A k \in DOMAIN Extra : k \in DOMAIN LastRequest.where
    /\ \A k \in DOMAIN Extra \ {Mapped} : LastRequest.where[k] = Extra[k]

EagerNames(entityName) ==
  {Properties(entityName)[i].name : i \in {j \in DOMAIN Properties(entityName) : Properties(entityName)[j].eager}}

Listed == ~IsTrue(call.populate) /\ ~SomeAll(call.populate)

\* C14 (eager defaults): with lookup on, the node list a call works on has a
\* node for every eager property of the entity type, after the nodes of the
\* caller's list, which are all kept, the empty list included; and when the call
\* is done every eager relationship of every entity is loaded
C14_EagerCovered ==
  /\ (stack # <<>> /\ call.lookup) =>
       /\ \A f \in EagerNames(call.entityName) :
            \E j \in DOMAIN stack[1].nodes : stack[1].nodes[j].field = <<f>>
       /\ Listed =>
            /\ \A i \in DOMAIN Requested : stack[1].nodes[i].field = <<Head(Requested[i].field)>>
            /\ \A f \in EagerNames(call.entityName) :
                 \E j \in DOMAIN stack[1].nodes :
                   j > Len(Requested) /\ stack[1].nodes[j].field = <<f>>
  /\ (status = "done" /\ Attempted /\ call.lookup) =>
       \A f \in EagerNames(call.entityName) :
         AllInitialized(mem, call.entityName, call.entities, <<Leaf(<<f>>)>>)

\* the empty list for two books whose authors were not loaded: the eager
\* relationship was fetched and is loaded
C14_Witness ==
  /\ status = "done"
  /\ call.entityName = "Book"
  /\ call.entities = <<"b1", "b3">>
  /\ call.populate = PList(<<>>)
  /\ call.lookup
  /\ ~hist.mem0.loaded["a1"]
  /\ Len(log) = 1
  /\ log[1].req.type = "Author"
  /\ log[1].req.ids = <<"a1", "a2">>
  /\ mem.loaded["a1"] /\ mem.loaded["a2"]

StartStep == nproc' = nproc + 1

LinkStep == last'.linked /\ ~last.linked

PushStep == stack # <<>> /\ Len(stack') = Len(stack) + 1

KeyedByParents(r) == r.op = "pivot" \/ r.fk # primaryKey

\* the Collection of e for field f is initialized; with full, so is every item
Ready(e, f, full) ==
  /\ isCollection(mem, e, f)
  /\ mem.coll[<<e, f>>].init
  /\ full => isInitializedFully(mem, <<e, f>>)

\* the step that starts a node leaves such a parent out and its Collection alone
LeftOut(e, f) ==
  /\ e \notin SeqToSet(last'.filtered)
  /\ mem'.coll[<<e, f>>] = mem.coll[<<e, f>>]
  /\ (pending' # None /\ KeyedByParents(pending'.reqs[1])) => e \notin SeqToSet(pending'.reqs[1].ids)

Skips(full) ==
  (StartStep /\ ~Top.refresh) =>
    \A e \in SeqToSet(Top.entities) : Ready(e, Field(Current), full) => LeftOut(e, Field(Current))

\* C15 (initialized parents), as the specification states it: with refresh off
\* a parent whose Collection is initialized is left out of the parents to load
\* and of the fetch keys, and its Collection is left as it is
C15_InitializedSkipped ==
  [][Skips(FALSE)]_vars

\* C15, amended: with refresh off a parent whose Collection is initialized, every
\* item of it loaded, is left out of the parents to load and of the fetch keys;
\* neither the step that starts the node nor the one that links the children
\* fetched changes its Collection; and when the children of the node are
\* populated, the items of every parent's Collection are among the entities they
\* are populated on
C15_FullyInitializedSkipped ==
  [][/\ Skips(TRUE)
     /\ (LinkStep /\ ~last.refresh) =>
          \A e \in SeqToSet(last.entities) \ SeqToSet(last.filtered) :
            isCollection(mem, e, last.field) =>
              mem'.coll[<<e, last.field>>] = mem.coll[<<e, last.field>>]
     /\ PushStep =>
          \A e \in SeqToSet(Top.entities) :
            isCollection(mem', e, Field(Current)) =>
              SeqToSet(mem'.coll[<<e, Field(Current)>>].items)
                \subseteq SeqToSet(stack'[Len(stack')].entities)]_vars

\* books.tags asked again for two authors whose books are loaded: no author is
\* a parent to load, nothing is fetched for books, the Collections are as they
\* were, and the tags are populated on all three books
C15_Witness ==
  /\ hist.same
  /\ ~call.refresh
  /\ call.populate = PList(<<N2("books", "tags")>>)
  /\ call.entities = <<"a1", "a2">>
  /\ last.id = 2
  /\ last.entities = <<"b1", "b2", "b3">>
  /\ \A i \in DOMAIN log : log[i].node = 2
  /\ mem.coll[<<"a1", "books">>] = hist.mem0.coll[<<"a1", "books">>]
  /\ mem.coll[<<"a1", "books">>].init

\* every entity of es whose field f holds a Collection or an entity has the
\* value of the field marked populated
Marked(es, f) ==
  \A e \in SeqToSet(es) :
    /\ isCollection(mem, e, f) => <<e, f>> \in mem.popColl
    /\ isEntity(mem, e, f) => mem.ref[<<e, f>>] \in mem.popEnt

\* C16 (populated marks): in every state in which the fetch of a node is awaited
\* the Collections and the entities or References the parents hold in its field
\* are marked populated, and they are still marked once the fetch has rejected
C16_MarkedBeforeFetch ==
  /\ pending # None => Marked(Top.entities, Field(Current))
  /\ Thrown => Marked(last.entities, last.field)

\* the fetch of the authors of two books rejects: both References were marked
\* by this call and still are
C16_Witness ==
  /\ Thrown
  /\ last.field = "author"
  /\ last.entities = <<"b1", "b3">>
  /\ hist.mem0.popEnt = {}
  /\ mem.popEnt = {"a1", "a2"}
  /\ status = "failed"

\* C17 (initialized flag): no step sets the initialized flag of a Collection
\* back to false, whatever the calls, with refresh or without, done or failed;
\* the flag becomes true only on a step of populateMany, the one that starts a
\* node or the one that links the children fetched
C17_NeverDowngraded ==
  [][\A k \in CollKeys :
       /\ mem.coll[k].init => mem'.coll[k].init
       /\ (~mem.coll[k].init /\ mem'.coll[k].init) => (StartStep \/ LinkStep)]_vars

\* a refresh with a filter that leaves an author without books, after a call
\* that hydrated the author's Collection: it is emptied and still initialized
C17_Witness ==
  /\ ncalls = 2
  /\ call.refresh
  /\ call.where # EmptyMap
  /\ last.linked
  /\ last.reference = ONE_TO_MANY
  /\ hist.mem0.coll[<<"a1", "books">>] = [init |-> TRUE, items |-> <<"b1", "b2">>]
  /\ mem.coll[<<"a1", "books">>] = [init |-> TRUE, items |-> <<>>]

\* C18 (children returned), as the specification states it: what populateMany
\* returns once the children are linked holds no entity twice, on every path
C18_ReturnsDistinct ==
  last.linked => NoDup(last.data)

\* C19 (one fetch per field), as the specification implies it: within one call
\* no two fetches are issued for nodes of the call's own list that have the same
\* field
C19_FieldFetchedOnce ==
  \A i, j \in DOMAIN log :
    (Len(log[i].path) = 1 /\ Len(log[j].path) = 1 /\ log[i].field = log[j].field) => i = j

====
